---- MODULE Spec2Model ----
(***************************************************************************)
(* Model of the SQL fragment builders of jobly-backend:                    *)
(*   sqlForPartialUpdate            (helpers/sql.js)                       *)
(*   sqlForCompanyFilter            (helpers/sql.js, two revisions)        *)
(*   Company._sqlForCompanyFilter   (models, static method)                *)
(*   Job._filterWhereBuilder        (models/job.js)                        *)
(* and of the persistence methods of models/job.js (create, get, update,   *)
(* remove of jobs and of the company revision) over one store.             *)
(* JavaScript values are tagged records, objects are insertion-ordered     *)
(* sequences of entries, and SQL text is modelled as real strings.         *)
(* Spec runs one builder call; SpecStore runs calls of the persistence     *)
(* methods, one query per step.                                            *)
(***************************************************************************)
EXTENDS Integers, Sequences, FiniteSets, TLC

\* pc, fn, arg, jsToSql, ret: one builder call.  db: the tables; calls: the
\* method call of each request slot; started: the number of calls made;
\* onDelete: what the foreign key of jobs does when a company is deleted;
\* removedIds: the identifiers removed and not stored since.
VARIABLES pc, fn, arg, jsToSql, ret,
          db, calls, started, onDelete, removedIds

vars == <<pc, fn, arg, jsToSql, ret, db, calls, started, onDelete, removedIds>>

(***************************************************************************)
(* Bounds of the model.                                                    *)
(***************************************************************************)
\* Largest number of keys of an update payload.
MaxUpdateKeys == 2
\* Largest number of keys of a filter criteria object.
MaxFilterKeys == 3

\* Largest number of method calls made on the store.
MaxCalls == 2

(***************************************************************************)
(* JavaScript values.                                                      *)
(***************************************************************************)
Str(s) == [t |-> "string", s |-> s, n |-> 0]
Num(n) == [t |-> "number", s |-> "", n |-> n]
Bool(b) == [t |-> "boolean", s |-> "", n |-> IF b THEN 1 ELSE 0]
Fun(src) == [t |-> "function", s |-> src, n |-> 0]
Null == [t |-> "null", s |-> "", n |-> 0]
Undefined == [t |-> "undefined", s |-> "", n |-> 0]
NaN == [t |-> "number", s |-> "NaN", n |-> 0]

IsNaN(v) == v.t = "number" /\ v.s = "NaN"

\* Decimal digits, for the string -> number conversion.
DigitValue(c) ==
  CASE c = "0" -> 0 [] c = "1" -> 1 [] c = "2" -> 2 [] c = "3" -> 3
    [] c = "4" -> 4 [] c = "5" -> 5 [] c = "6" -> 6 [] c = "7" -> 7
    [] c = "8" -> 8 [] c = "9" -> 9 [] OTHER -> -1

RECURSIVE StringToNumber(_, _)
\* Number("<digits>"): the decimal value read left to right; NaN as soon as
\* a character is no digit.  acc is the value of the characters read so far.
StringToNumber(s, acc) ==
  IF Len(s) = 0 THEN Num(acc)
  ELSE LET d == DigitValue(SubSeq(s, 1, 1))
       IN IF d < 0 THEN NaN
          ELSE StringToNumber(SubSeq(s, 2, Len(s)), 10 * acc + d)

\* Number(v), the conversion applied to both bounds before they are compared.
Number(v) ==
  CASE v.t = "number" -> v
    [] v.t = "string" -> StringToNumber(v.s, 0)
    [] v.t = "boolean" -> Num(v.n)
    [] v.t = "null" -> Num(0)
    [] OTHER -> NaN

\* a > b on numbers: false as soon as one side is NaN.
GreaterThan(a, b) == ~IsNaN(a) /\ ~IsNaN(b) /\ a.n > b.n

\* String(v), as a template literal `${v}` converts v.
ToStr(v) ==
  CASE v.t = "string" -> v.s
    [] v.t = "function" -> v.s
    [] v.t = "number" -> IF IsNaN(v) THEN "NaN" ELSE ToString(v.n)
    [] v.t = "boolean" -> IF v.n = 1 THEN "true" ELSE "false"
    [] v.t = "null" -> "null"
    [] OTHER -> "undefined"

\* Truthiness, as the || operator tests its left operand.
Truthy(v) ==
  CASE v.t = "string" -> v.s # ""
    [] v.t = "number" -> ~IsNaN(v) /\ v.n # 0
    [] v.t = "boolean" -> v.n = 1
    [] v.t = "function" -> TRUE
    [] v.t = "object" -> TRUE
    [] OTHER -> FALSE

\* a || b
Or(a, b) == IF Truthy(a) THEN a ELSE b

(***************************************************************************)
(* JavaScript objects: insertion-ordered sequences of [k, v] entries with  *)
(* distinct keys.  Keys are identifier-like names.                         *)
(***************************************************************************)
Entry(k, v) == [k |-> k, v |-> v]

HasOwn(o, k) == \E i \in 1..Len(o) : o[i].k = k

OwnValue(o, k) == o[CHOOSE i \in 1..Len(o) : o[i].k = k].v

\* Properties every plain object inherits from Object.prototype.
ObjectPrototype ==
  << Entry("toString", Fun("function toString() { [native code] }")),
     Entry("constructor", Fun("function Object() { [native code] }")) >>

\* o[k]: the own property, else the inherited one, else undefined.
Get(o, k) ==
  IF HasOwn(o, k) THEN OwnValue(o, k)
  ELSE IF HasOwn(ObjectPrototype, k) THEN OwnValue(ObjectPrototype, k)
  ELSE Undefined

ObjectKeys(o) == [i \in 1..Len(o) |-> o[i].k]

ObjectValues(o) == [i \in 1..Len(o) |-> o[i].v]

\* The ...rest of a destructuring pattern: the own entries whose key is not
\* among the named ones, in insertion order.
RestOf(o, named) == SelectSeq(o, LAMBDA e : e.k \notin named)

RECURSIVE Join(_, _)
\* Array.prototype.join
Join(parts, sep) ==
  IF Len(parts) = 0 THEN ""
  ELSE IF Len(parts) = 1 THEN parts[1]
  ELSE parts[1] \o sep \o Join(Tail(parts), sep)

\* An error of the wrong kind.
Throw_notFound(kind, message) ==
  [threw |-> "NotFoundError", message |-> message]

\* A thrown error and a normal return.
Throw(kind, message) == [threw |-> kind, message |-> message]

(***************************************************************************)
(* Reading SQL text back: the operators the properties use to take a       *)
(* fragment apart.                                                         *)
(***************************************************************************)
StartsWith(s, p) == Len(s) >= Len(p) /\ SubSeq(s, 1, Len(p)) = p

EndsWith(s, p) ==
  Len(s) >= Len(p) /\ SubSeq(s, Len(s) - Len(p) + 1, Len(s)) = p

\* Position of the first occurrence of sub in s, 0 when there is none.
IndexOf(s, sub) ==
  LET hits == { i \in 1..(Len(s) - Len(sub) + 1) :
                  SubSeq(s, i, i + Len(sub) - 1) = sub }
  IN IF hits = {} THEN 0 ELSE CHOOSE i \in hits : \A j \in hits : i <= j

Contains(s, sub) == IndexOf(s, sub) # 0

RECURSIVE Split(_, _)
Split(s, sep) ==
  LET i == IndexOf(s, sep)
  IN IF i = 0 THEN << s >>
     ELSE << SubSeq(s, 1, i - 1) >>
            \o Split(SubSeq(s, i + Len(sep), Len(s)), sep)

\* The assignments of a SET fragment, and the two parts of "<column>"=$<index>.
Assignments(setCols) == Split(setCols, ", ")

ColumnOf(assignment) ==
  SubSeq(assignment, 2, IndexOf(assignment, "\"=$") - 1)

PlaceholderOf(assignment) ==
  SubSeq(assignment, IndexOf(assignment, "\"=$") + 3, Len(assignment))

(***************************************************************************)
(* helpers/sql.js: sqlForPartialUpdate                                     *)
(***************************************************************************)
\* An emptiness test that never fires.
NoData_never(keys) == Len(keys) < 0

\* keys.length === 0
NoData(keys) == Len(keys) = 0

\* An assignment numbered with the 0-based index.
SetColumn_zeroBased(dataToUpdate, jsToSql_, colName, idx) ==
  "\"" \o ToStr(Or(Get(jsToSql_, colName), Str(colName))) \o "\"=$"
       \o ToString(idx)

\* An assignment that writes the value into the text.
SetColumn_inlineValue(dataToUpdate, jsToSql_, colName, idx) ==
  "\"" \o ToStr(Or(Get(jsToSql_, colName), Str(colName))) \o "\"='"
       \o ToStr(Get(dataToUpdate, colName)) \o "'"

\* The arrow function of keys.map: idx is the 0-based index of colName.
SetColumn(dataToUpdate, jsToSql_, colName, idx) ==
  "\"" \o ToStr(Or(Get(jsToSql_, colName), Str(colName))) \o "\"=$"
       \o ToString(idx + 1)

sqlForPartialUpdate(dataToUpdate, jsToSql_) ==
  LET keys == ObjectKeys(dataToUpdate)
  IN IF NoData(keys) THEN Throw("BadRequestError", "No data")
     ELSE LET cols == [i \in 1..Len(keys) |->
                         SetColumn(dataToUpdate, jsToSql_, keys[i], i - 1)]
          IN [threw |-> "",
              setCols |-> Join(cols, ", "),
              values |-> ObjectValues(dataToUpdate)]

(***************************************************************************)
(* helpers/sql.js: sqlForCompanyFilter, the two revisions in the source    *)
(***************************************************************************)
\* values.push(v); whereConditions.push(`${text}${whereConditions.length + 1}`)
PushNumberedByConditions(acc, v, text) ==
  [values |-> Append(acc.values, v),
   whereConditions |->
     Append(acc.whereConditions,
            text \o ToString(Len(acc.whereConditions) + 1))]

\* One turn of the loop over Object.entries(filterArgs), earlier revision.
FilterEntry001(acc, e) ==
  IF e.k = "minEmployees"
  THEN PushNumberedByConditions(acc, e.v, "num_employees>=$")
  ELSE IF e.k = "maxEmployees"
  THEN PushNumberedByConditions(acc, e.v, "num_employees<=$")
  ELSE IF e.k = "name"
  THEN PushNumberedByConditions(
         acc, Str("%" \o ToStr(e.v) \o "%"), e.k \o " ILIKE $")
  ELSE PushNumberedByConditions(acc, e.v, e.k \o "=$")

RECURSIVE FilterLoop001(_, _)
FilterLoop001(acc, entries) ==
  IF Len(entries) = 0 THEN acc
  ELSE FilterLoop001(FilterEntry001(acc, Head(entries)), Tail(entries))

\* whereConditions.length === 0 ? "" : "WHERE " + whereConditions.join("AND ")
WhereClause001(whereConditions) ==
  IF Len(whereConditions) = 0 THEN ""
  ELSE "WHERE " \o Join(whereConditions, "AND ")

sqlForCompanyFilter_part001(filterArgs) ==
  LET s == FilterLoop001([values |-> <<>>, whereConditions |-> <<>>],
                         filterArgs)
  IN [threw |-> "",
      whereClause |-> WhereClause001(s.whereConditions),
      values |-> s.values]

RECURSIVE OtherArgsLoop002(_, _)
\* for (const [arg, val] of Object.entries(otherArgs)), later revision.
OtherArgsLoop002(acc, entries) ==
  IF Len(entries) = 0 THEN acc
  ELSE OtherArgsLoop002(
         PushNumberedByConditions(acc, Head(entries).v,
                                  Head(entries).k \o "=$"),
         Tail(entries))

WhereClause002(whereConditions) ==
  IF Len(whereConditions) = 0 THEN ""
  ELSE "WHERE " \o Join(whereConditions, " AND ")

sqlForCompanyFilter_part002(filterArgs) ==
  LET minEmployees == Get(filterArgs, "minEmployees")
      maxEmployees == Get(filterArgs, "maxEmployees")
      name == Get(filterArgs, "name")
      otherArgs == RestOf(filterArgs, {"minEmployees", "maxEmployees", "name"})
      s0 == [values |-> <<>>, whereConditions |-> <<>>]
      s1 == IF name # Undefined
            THEN PushNumberedByConditions(
                   s0, Str("%" \o ToStr(name) \o "%"), "name ILIKE $")
            ELSE s0
      s2 == IF minEmployees # Undefined
            THEN PushNumberedByConditions(s1, minEmployees, "num_employees>=$")
            ELSE s1
      s3 == IF maxEmployees # Undefined
            THEN PushNumberedByConditions(s2, maxEmployees, "num_employees<=$")
            ELSE s2
      s4 == OtherArgsLoop002(s3, otherArgs)
  IN [threw |-> "",
      whereClause |-> WhereClause002(s4.whereConditions),
      values |-> s4.values]

(***************************************************************************)
(* Company._sqlForCompanyFilter (static method of the company model)       *)
(***************************************************************************)
\* A range check that also rejects equal bounds.
RangeInverted_orEqual(minEmployees, maxEmployees) ==
  LET a == Number(minEmployees)
      b == Number(maxEmployees)
  IN ~IsNaN(a) /\ ~IsNaN(b) /\ a.n >= b.n

\* Number(minEmployees) > Number(maxEmployees)
RangeInverted(minEmployees, maxEmployees) ==
  GreaterThan(Number(minEmployees), Number(maxEmployees))

\* A push that numbers the placeholder by the conditions gathered so far.
PushNumberedByValues_byConditions(acc, v, text) ==
  [values |-> Append(acc.values, v),
   whereConditions |->
     Append(acc.whereConditions,
            text \o ToString(Len(acc.whereConditions) + 1))]

\* values.push(v); whereConditions.push(`${text}${values.length}`)
PushNumberedByValues(acc, v, text) ==
  LET values == Append(acc.values, v)
  IN [values |-> values,
      whereConditions |->
        Append(acc.whereConditions, text \o ToString(Len(values)))]

\* A clause that always starts with WHERE, also without conditions.
CompanyWhereClause_bare(whereConditions) ==
  "WHERE " \o Join(whereConditions, " AND ")

\* whereConditions.length === 0 ? "" : "WHERE " + whereConditions.join(" AND ")
CompanyWhereClause(whereConditions) ==
  IF Len(whereConditions) = 0 THEN ""
  ELSE "WHERE " \o Join(whereConditions, " AND ")

\* A builder that keeps the catch-all of the helpers revision: every other
\* key becomes an equality predicate.
Company_sqlForCompanyFilter_catchAll(filterArgs) ==
  IF RangeInverted(Get(filterArgs, "minEmployees"),
                   Get(filterArgs, "maxEmployees"))
  THEN Throw("BadRequestError",
             "minEmployees must be greater than maxEmployees")
  ELSE sqlForCompanyFilter_part002(filterArgs)

Company_sqlForCompanyFilter(filterArgs) ==
  LET minEmployees == Get(filterArgs, "minEmployees")
      maxEmployees == Get(filterArgs, "maxEmployees")
      name == Get(filterArgs, "name")
  IN IF RangeInverted(minEmployees, maxEmployees)
     THEN Throw("BadRequestError",
                "minEmployees must be greater than maxEmployees")
     ELSE
       LET s0 == [values |-> <<>>, whereConditions |-> <<>>]
           s1 == IF name # Undefined
                 THEN PushNumberedByValues(
                        s0, Str("%" \o ToStr(name) \o "%"), "name ILIKE $")
                 ELSE s0
           s2 == IF minEmployees # Undefined
                 THEN PushNumberedByValues(s1, minEmployees, "num_employees>=$")
                 ELSE s1
           s3 == IF maxEmployees # Undefined
                 THEN PushNumberedByValues(s2, maxEmployees, "num_employees<=$")
                 ELSE s2
       IN [threw |-> "",
           whereClause |-> CompanyWhereClause(s3.whereConditions),
           values |-> s3.values]

(***************************************************************************)
(* models/job.js: Job._filterWhereBuilder                                  *)
(***************************************************************************)
HasEquityTrue_truthy(hasEquity) == Truthy(hasEquity)

\* hasEquity === true
HasEquityTrue(hasEquity) == hasEquity = Bool(TRUE)

\* (whereParts.length > 0) ? "WHERE " + whereParts.join(" AND ") : ""
JobWhere(whereParts) ==
  IF Len(whereParts) > 0 THEN "WHERE " \o Join(whereParts, " AND ") ELSE ""

Job_filterWhereBuilder(searchFilters) ==
  LET minSalary == Get(searchFilters, "minSalary")
      hasEquity == Get(searchFilters, "hasEquity")
      title == Get(searchFilters, "title")
      s0 == [values |-> <<>>, whereConditions |-> <<>>]
      s1 == IF minSalary # Undefined
            THEN PushNumberedByValues(s0, minSalary, "salary >= $")
            ELSE s0
      s2 == IF HasEquityTrue(hasEquity)
            THEN [s1 EXCEPT !.whereConditions = Append(@, "equity > 0")]
            ELSE s1
      s3 == IF title # Undefined
            THEN PushNumberedByValues(
                   s2, Str("%" \o ToStr(title) \o "%"), "title ILIKE $")
            ELSE s2
  IN [threw |-> "",
      where |-> JobWhere(s3.whereConditions),
      vals |-> s3.values]

(***************************************************************************)
(* Inputs: the objects the builders are called with.                       *)
(***************************************************************************)
\* All objects of at most max entries drawn from entries, with distinct keys.
ObjectsOf(entries, max) ==
  UNION { { o \in [1..n -> entries] :
              \A i, j \in 1..n : i < j => o[i].k # o[j].k } : n \in 0..max }

UpdateEntries ==
  { Entry(k, v) : k \in {"name", "numEmployees", "toString"},
                  v \in {Str("newName"), Num(0), Null} }

UpdatePayloads == ObjectsOf(UpdateEntries, MaxUpdateKeys)

\* The maps the callers pass ({} for jobs, the company map for companies),
\* and a map whose entry holds the empty string.
JobFieldMap == << >>

CompanyFieldMap ==
  << Entry("numEmployees", Str("num_employees")),
     Entry("logoUrl", Str("logo_url")) >>

BlankFieldMap == << Entry("name", Str("")) >>

FieldNameMaps == {JobFieldMap, CompanyFieldMap, BlankFieldMap}

CompanyFilterEntries ==
       { Entry("name", v) : v \in {Str("Company 1"), Undefined} }
  \cup { Entry("minEmployees", v) :
           v \in {Num(2), Str("23"), Str("9"), Undefined} }
  \cup { Entry("maxEmployees", v) :
           v \in {Num(2), Str("2"), Str("10"), Undefined} }
  \cup { Entry("description", v) : v \in {Str(""), Undefined} }

CompanyFilters == ObjectsOf(CompanyFilterEntries, MaxFilterKeys)

JobFilterEntries ==
       { Entry("minSalary", v) : v \in {Num(100), Undefined} }
  \cup { Entry("hasEquity", v) :
           v \in {Bool(TRUE), Bool(FALSE), Str("true"), Undefined} }
  \cup { Entry("title", v) : v \in {Str("Engineer"), Undefined} }

JobFilters == ObjectsOf(JobFilterEntries, MaxFilterKeys)

CompanyFilterFns ==
  {"Company._sqlForCompanyFilter", "sqlForCompanyFilter@part_001",
   "sqlForCompanyFilter@part_002"}

NoReturn == [threw |-> "pending"]

(***************************************************************************)
(* The store behind db.query: the tables companies and jobs of the         *)
(* persisted schema, and the statements the model methods send to it.      *)
(* A table is the sequence of its rows; a row maps column names to values. *)
(***************************************************************************)
\* A number with two decimals, h/100 (equity: 0.05 is Hundredths(5)).
Hundredths(h) == [t |-> "number", s |-> "/100", n |-> h]

\* The value of a number in hundredths, whichever way it is written.
Scaled(v) == IF v.s = "/100" THEN v.n ELSE 100 * v.n

GreaterOrEqual(a, b) == ~IsNaN(a) /\ ~IsNaN(b) /\ Scaled(a) >= Scaled(b)

LessThan(a, b) == ~IsNaN(a) /\ ~IsNaN(b) /\ Scaled(a) < Scaled(b)

\* A nested object as the value of a property (job.company).
Obj(o) == [t |-> "object", s |-> "", n |-> 0, o |-> o]

CompanyRow(handle, name, description, numEmployees, logoUrl) ==
  [handle |-> handle, name |-> name, description |-> description,
   num_employees |-> numEmployees, logo_url |-> logoUrl]

JobRow(id, title, salary, equity, companyHandle) ==
  [id |-> id, title |-> title, salary |-> salary, equity |-> equity,
   company_handle |-> companyHandle]

\* The rows the tests start from: company c1 with one job, company c2 with
\* none; nextId is the id the jobs table hands out next.
Fixture ==
  [companies |->
     << CompanyRow(Str("c1"), Str("Company 1"), Str("Desc1"), Num(1),
                   Str("http://c1.img")),
        CompanyRow(Str("c2"), Str("Company 2"), Str("Desc2"), Num(2),
                   Str("http://c2.img")) >>,
   jobs |-> << JobRow(Num(1), Str("j1"), Num(1), Hundredths(10), Str("c1")) >>,
   nextId |-> 2]

\* RETURNING / SELECT lists of the statements, with their AS aliases.
JobColumns(r) ==
  << Entry("id", r.id), Entry("title", r.title), Entry("salary", r.salary),
     Entry("equity", r.equity), Entry("companyHandle", r.company_handle) >>

CompanyColumns(r) ==
  << Entry("handle", r.handle), Entry("name", r.name),
     Entry("description", r.description),
     Entry("numEmployees", r.num_employees), Entry("logoUrl", r.logo_url) >>

Returning(table, r) ==
  IF table = "jobs" THEN JobColumns(r) ELSE CompanyColumns(r)

\* A statement parameter as the driver sends it: undefined travels as NULL.
SqlParam(v) == IF v = Undefined THEN Null ELSE v

\* column = $k: NULL equals nothing.
SqlEq(a, b) == a # Null /\ b # Null /\ a = b

Matching(rows, col, v) ==
  { i \in 1..Len(rows) : SqlEq(rows[i][col], SqlParam(v)) }

\* The rows at the positions hits, in table order.
Picked(rows, hits) ==
  LET idx == SelectSeq([i \in 1..Len(rows) |-> i], LAMBDA i : i \in hits)
  IN [n \in 1..Len(idx) |-> rows[idx[n]]]

Result(err, rows, newDb) == [err |-> err, rows |-> rows, db |-> newDb]

\* Every job names a stored company, and no table holds a key twice.
ForeignKeyHolds(d) ==
  \A j \in 1..Len(d.jobs) :
    \E c \in 1..Len(d.companies) :
      d.companies[c].handle = d.jobs[j].company_handle

KeysUnique(d) ==
  /\ \A i, j \in 1..Len(d.jobs) : i # j => d.jobs[i].id # d.jobs[j].id
  /\ \A i, j \in 1..Len(d.companies) :
       i # j => d.companies[i].handle # d.companies[j].handle

\* SELECT ... FROM <table> WHERE <col> = $1
ExecSelect(d, table, col, v) ==
  Result("", Picked(d[table], Matching(d[table], col, v)), d)

\* INSERT INTO jobs (title, salary, equity, company_handle)
\*   VALUES ($1, $2, $3, $4): the id comes from the table's sequence.
ExecInsertJob(d, params) ==
  LET row == JobRow(Num(d.nextId), SqlParam(params[1]), SqlParam(params[2]),
                    SqlParam(params[3]), SqlParam(params[4]))
      newDb == [d EXCEPT !.jobs = Append(@, row), !.nextId = @ + 1]
  IN IF ForeignKeyHolds(newDb) /\ KeysUnique(newDb)
     THEN Result("", << row >>, newDb)
     ELSE Result("StoreError", << >>, d)

\* The text of s between the first a and the next b.
Between(s, a, b) ==
  LET rest == SubSeq(s, IndexOf(s, a) + Len(a), Len(s))
  IN SubSeq(rest, 1, IndexOf(rest, b) - 1)

\* The text of s after the first a.
After(s, a) == SubSeq(s, IndexOf(s, a) + Len(a), Len(s))

\* "3" -> 3
ParamIndex(digits) == StringToNumber(digits, 0).n

RECURSIVE ApplyAssignments(_, _, _)
ApplyAssignments(row, assignments, params) ==
  IF assignments = << >> THEN row
  ELSE LET a == Head(assignments)
       IN ApplyAssignments(
            [row EXCEPT ![ColumnOf(a)] =
                          SqlParam(params[ParamIndex(PlaceholderOf(a))])],
            Tail(assignments), params)

\* An update that forgets the row condition.
UpdateRows_everyRow(rows, hits, assignments, params) ==
  [i \in 1..Len(rows) |-> ApplyAssignments(rows[i], assignments, params)]

\* UPDATE <table> SET <assignments> WHERE <col> = $<k> RETURNING ...
\* The statement is executed from its text: the assignments and the row
\* condition are read out of the string the method built.
UpdateRows(rows, hits, assignments, params) ==
  [i \in 1..Len(rows) |->
     IF i \in hits THEN ApplyAssignments(rows[i], assignments, params)
     ELSE rows[i]]

ExecUpdate(d, sql, params) ==
  LET table == Between(sql, "UPDATE ", " SET ")
      assignments == Assignments(Between(sql, " SET ", " WHERE "))
      cond == Between(sql, " WHERE ", " RETURNING ")
      col == SubSeq(cond, 1, IndexOf(cond, " = $") - 1)
      k == ParamIndex(After(cond, " = $"))
      rows == d[table]
      known == IF table = "jobs"
               THEN DOMAIN JobRow(Null, Null, Null, Null, Null)
               ELSE DOMAIN CompanyRow(Null, Null, Null, Null, Null)
  IN IF \E i \in 1..Len(assignments) : ColumnOf(assignments[i]) \notin known
     THEN Result("StoreError", << >>, d)
     ELSE LET hits == Matching(rows, col, params[k])
              newRows == UpdateRows(rows, hits, assignments, params)
              newDb == [d EXCEPT ![table] = newRows]
          IN IF ForeignKeyHolds(newDb) /\ KeysUnique(newDb)
             THEN Result("",
                         [i \in 1..Cardinality(hits) |->
                            Returning(table, Picked(newRows, hits)[i])],
                         newDb)
             ELSE Result("StoreError", << >>, d)

\* A delete that reports the row and keeps it.
RowsAfterDelete_keepAll(rows, col, gone) == rows

RowsAfterDelete(rows, col, gone) ==
  SelectSeq(rows, LAMBDA r : r[col] \notin gone)

\* What the foreign key of jobs does when companies go: with ON DELETE
\* CASCADE their jobs go with them, otherwise the jobs stay and the
\* statement fails on them.
ForeignKeyOnDelete(d, gone, fkOnDelete) ==
  IF fkOnDelete = "CASCADE"
  THEN [d EXCEPT !.jobs = SelectSeq(@, LAMBDA j : j.company_handle \notin gone)]
  ELSE d

\* DELETE FROM <table> WHERE <col> = $1 RETURNING <col>
ExecDelete(d, table, col, v, fkOnDelete) ==
  LET rows == d[table]
      hits == Matching(rows, col, v)
      gone == { rows[i][col] : i \in hits }
      kept == RowsAfterDelete(rows, col, gone)
      cascaded == IF table = "companies"
                  THEN ForeignKeyOnDelete([d EXCEPT !.companies = kept],
                                          gone, fkOnDelete)
                  ELSE [d EXCEPT ![table] = kept]
  IN IF ForeignKeyHolds(cascaded)
     THEN Result("", [i \in 1..Cardinality(hits) |->
                        << Entry(col, Picked(rows, hits)[i][col]) >>],
                 cascaded)
     ELSE Result("StoreError", << >>, d)

\* The rearrangements of n positions, and a sequence with its members
\* rearranged.
Rearrangements(n) ==
  { p \in [1..n -> 1..n] : \A i, j \in 1..n : i # j => p[i] # p[j] }

Reordered(o, p) == [i \in 1..Len(o) |-> o[p[i]]]

\* The order of text under the store's collation, on the characters the rows
\* hold.
Collation ==
  " -./:0123456789ABCDEFGHIJKLMNOPQRSTUVWXYZabcdefghijklmnopqrstuvwxyz"

CharRank(ch) == IndexOf(Collation, ch)

RECURSIVE TextLess(_, _)
TextLess(a, b) ==
  IF Len(b) = 0 THEN FALSE
  ELSE IF Len(a) = 0 THEN TRUE
  ELSE LET x == CharRank(SubSeq(a, 1, 1))
           y == CharRank(SubSeq(b, 1, 1))
       IN \/ x < y
          \/ x = y /\ TextLess(SubSeq(a, 2, Len(a)), SubSeq(b, 2, Len(b)))

UpperLetters == "ABCDEFGHIJKLMNOPQRSTUVWXYZ"

LowerLetters == "abcdefghijklmnopqrstuvwxyz"

RECURSIVE LowerCase(_)
LowerCase(s) ==
  IF Len(s) = 0 THEN ""
  ELSE LET ch == SubSeq(s, 1, 1)
           i == IndexOf(UpperLetters, ch)
       IN (IF i = 0 THEN ch ELSE SubSeq(LowerLetters, i, i))
            \o LowerCase(SubSeq(s, 2, Len(s)))

\* <text> ILIKE '%<part>%': the part occurs in the text, letter case aside.
ILike(text, pattern) ==
  /\ text # Null /\ pattern # Null
  /\ Contains(LowerCase(text.s),
              LowerCase(SubSeq(pattern.s, 2, Len(pattern.s) - 1)))

RECURSIVE Trimmed(_)
Trimmed(s) ==
  IF StartsWith(s, " ") THEN Trimmed(SubSeq(s, 2, Len(s)))
  ELSE IF EndsWith(s, " ") THEN Trimmed(SubSeq(s, 1, Len(s) - 1))
  ELSE s

\* The comparison a condition applies, and its right-hand side: a
\* placeholder stands for its parameter, digits for a number.
OperatorOf(cond) ==
  IF Contains(cond, " ILIKE ") THEN " ILIKE "
  ELSE IF Contains(cond, ">=") THEN ">="
  ELSE IF Contains(cond, "<=") THEN "<="
  ELSE ">"

Operand(text, params) ==
  IF StartsWith(text, "$")
  THEN SqlParam(params[ParamIndex(After(text, "$"))])
  ELSE StringToNumber(text, 0)

\* A parameter compared with a numeric column: text is read as a number.
SqlNumber(v) == IF v.t = "string" THEN StringToNumber(v.s, 0) ELSE v

RightSide(cond, params) ==
  Operand(Trimmed(After(cond, OperatorOf(cond))), params)

\* A comparison with NULL holds for no row.
ConditionHolds(row, cond, params) ==
  LET op == OperatorOf(cond)
      lhs == row[Trimmed(SubSeq(cond, 1, IndexOf(cond, op) - 1))]
      rhs == RightSide(cond, params)
  IN IF op = " ILIKE " THEN ILike(lhs, rhs)
     ELSE /\ lhs # Null /\ rhs # Null
          /\ CASE op = ">=" -> GreaterOrEqual(lhs, SqlNumber(rhs))
               [] op = "<=" -> GreaterOrEqual(SqlNumber(rhs), lhs)
               [] OTHER -> LessThan(SqlNumber(rhs), lhs)

\* The parts of what follows FROM in a SELECT statement: its conditions, and
\* the column it orders by ("" when it has no ORDER BY).
WhereOf(from) ==
  IF ~Contains(from, " WHERE ") THEN ""
  ELSE LET rest == After(from, " WHERE ")
       IN Trimmed(IF Contains(rest, " ORDER BY ")
                  THEN SubSeq(rest, 1, IndexOf(rest, " ORDER BY ") - 1)
                  ELSE rest)

OrderOf(from) ==
  IF Contains(from, " ORDER BY ") THEN Trimmed(After(from, " ORDER BY "))
  ELSE ""

InOrder(rows, col) ==
  \A i, j \in 1..Len(rows) :
    i < j => ~TextLess(rows[j][col].s, rows[i][col].s)

\* The rows for which every condition holds, as the row sequences the store
\* may send: ordered by the column
\* orderBy when there is one (rows with equal keys in any order), in any
\* order when there is none.
Answers(rows, conds, params, orderBy) ==
  LET hits == { i \in 1..Len(rows) :
                  \A k \in 1..Len(conds) :
                    ConditionHolds(rows[i], conds[k], params) }
      found == Picked(rows, hits)
      answers == { Reordered(found, p) : p \in Rearrangements(Len(found)) }
  IN IF orderBy = "" THEN answers
     ELSE { a \in answers : InOrder(a, orderBy) }

\* SELECT ... FROM <table> [WHERE <conditions>] [ORDER BY <column>].  A
\* numeric comparison with a parameter that is no number is an error.
ExecFind(d, sql, params) ==
  LET from == After(sql, " FROM ")
      rows == d[IF StartsWith(from, "companies ") THEN "companies" ELSE "jobs"]
      where == WhereOf(from)
      conds == IF where = "" THEN << >> ELSE Split(where, " AND ")
      bad == \E k \in 1..Len(conds) :
               /\ OperatorOf(conds[k]) # " ILIKE "
               /\ RightSide(conds[k], params) # Null
               /\ IsNaN(SqlNumber(RightSide(conds[k], params)))
  IN IF bad THEN [err |-> "StoreError", answers |-> { << >> }]
     ELSE [err |-> "",
           answers |-> Answers(rows, conds, params, OrderOf(from))]

(***************************************************************************)
(* models/job.js: the persistence methods.  A call is a record: the method *)
(* (op), its identifier argument (id) and data argument, where it stands   *)
(* (pc), the error it threw, the value it returned, what it keeps between  *)
(* two queries (local), and the number of queries it has sent; no numbers  *)
(* the calls in the order they were made, wrote tells whether one of its   *)
(* steps changed the store, gone whether its identifier had been removed   *)
(* when it was made, sent holds the statement and the parameters of an     *)
(* update.                                                                 *)
(***************************************************************************)
\* The request slots: at most one call in flight in each.
Slots == {"r1", "r2"}

IdleCall ==
  [no |-> 0, op |-> "none", id |-> Undefined, data |-> << >>, pc |-> "idle",
   threw |-> "", result |-> Undefined, local |-> Undefined, queries |-> 0,
   wrote |-> FALSE, gone |-> FALSE, sent |-> << >>]

NewCall(op, id, data) ==
  [IdleCall EXCEPT !.op = op, !.id = id, !.data = data, !.pc = "start"]

Throws(c, kind) == [c EXCEPT !.pc = "done", !.threw = kind]

ReturnsValue(c, value) == [c EXCEPT !.pc = "done", !.result = value]

\* A query that is sent a second time.
Queried_twice(c) == [c EXCEPT !.queries = @ + 2]

\* await db.query(...): one more round trip of the call.
Queried(c) == [c EXCEPT !.queries = @ + 1]

\* await db.query(querySql, [...values, id]): the round trip of an update,
\* with the statement and the parameters it carries.
Sent(c, sql, params) == [Queried(c) EXCEPT !.sent = << sql, params >>]

\* result.rows[0]: the first row as an object, undefined when there is none.
RowZero(rows) == IF Len(rows) = 0 THEN Undefined ELSE Obj(rows[1])

\* if (!row) throw new NotFoundError(...), and a test that never throws.
NoRow_never(row) == row # row

NoRow(row) == ~Truthy(row)

\* What one step of a call leaves behind: the call and the store.
StepTo(c, d) == [call |-> c, db |-> d]

\* create of the company revision: the parameter pattern binds title,
\* salary, equity and company_handle; the parameter list of the INSERT names
\* handle, name, description, numEmployees and logoUrl, which nothing
\* declares, so evaluating it throws before db.query is called.
Company_create(c, d) == StepTo(Throws(c, "ReferenceError"), d)

Company_get(c, d) ==
  LET companyRes == ExecSelect(d, "companies", "handle", c.id)
      company == RowZero([i \in 1..Len(companyRes.rows) |->
                            CompanyColumns(companyRes.rows[i])])
  IN IF NoRow(company)
     THEN StepTo(Throws(Queried(c), "NotFoundError"), d)
     ELSE StepTo(ReturnsValue(Queried(c), company), d)

\* The statement text, with the template's line breaks written as spaces.
UpdateSql(table, setCols, col, varIdx, returning) ==
  "UPDATE " \o table \o " SET " \o setCols \o " WHERE " \o col \o " = "
    \o varIdx \o " RETURNING " \o returning

\* A placeholder that is always the first.
VarIdx_first(values) == "$1"

\* "$" + (values.length + 1)
VarIdx(values) == "$" \o ToString(Len(values) + 1)

\* The part update shares between the two models.
UpdateWith(c, d, table, col, fieldMap, returning) ==
  LET built == sqlForPartialUpdate(c.data, fieldMap)
  IN IF built.threw # "" THEN StepTo(Throws(c, built.threw), d)
     ELSE LET querySql == UpdateSql(table, built.setCols, col,
                                    VarIdx(built.values), returning)
              params == Append(built.values, c.id)
              result == ExecUpdate(d, querySql, params)
              q == Sent(c, querySql, params)
          IN IF result.err # ""
             THEN StepTo(Throws(q, result.err), d)
             ELSE IF NoRow(RowZero(result.rows))
             THEN StepTo(Throws(q, "NotFoundError"), result.db)
             ELSE StepTo(ReturnsValue(q, RowZero(result.rows)), result.db)

Company_update(c, d) ==
  UpdateWith(c, d, "companies", "handle", CompanyFieldMap,
    "handle, name, description, num_employees AS \"numEmployees\", logo_url AS \"logoUrl\"")

RemoveWith(c, d, table, col, fkOnDelete) ==
  LET result == ExecDelete(d, table, col, c.id, fkOnDelete)
  IN IF result.err # ""
     THEN StepTo(Throws(Queried(c), result.err), d)
     ELSE IF NoRow(RowZero(result.rows))
     THEN StepTo(Throws(Queried(c), "NotFoundError"), result.db)
     ELSE StepTo(ReturnsValue(Queried(c), Undefined), result.db)

Company_remove(c, d, fkOnDelete) ==
  RemoveWith(c, d, "companies", "handle", fkOnDelete)

\* Number(equity) >= 1, and a test that lets 1 itself through.
EquityTooHigh_above(equity) == GreaterThan(Number(equity), Num(1))

EquityTooHigh(equity) == GreaterOrEqual(Number(equity), Num(1))

\* Number(salary) < 0, and a test that never fires.
SalaryNegative_never(salary) == LessThan(Number(salary), Number(salary))

SalaryNegative(salary) == LessThan(Number(salary), Num(0))

\* Job.create up to and including its first query: the two range checks
\* and the look-up of the company.
Job_create_check(c, d) ==
  LET salary == Get(c.data, "salary")
      equity == Get(c.data, "equity")
      companyHandle == Get(c.data, "companyHandle")
  IN IF EquityTooHigh(equity) THEN StepTo(Throws(c, "BadRequestError"), d)
     ELSE IF SalaryNegative(salary) THEN StepTo(Throws(c, "BadRequestError"), d)
     ELSE LET existsCheck == ExecSelect(d, "companies", "handle", companyHandle)
          IN IF Len(existsCheck.rows) = 0
             THEN StepTo(Throws(Queried(c), "BadRequestError"), d)
             ELSE StepTo([Queried(c) EXCEPT !.pc = "insert"], d)

\* Job.create from its INSERT to its return.
Job_create_insert(c, d) ==
  LET result == ExecInsertJob(d, << Get(c.data, "title"), Get(c.data, "salary"),
                                    Get(c.data, "equity"),
                                    Get(c.data, "companyHandle") >>)
  IN IF result.err # ""
     THEN StepTo(Throws(Queried(c), result.err), d)
     ELSE StepTo(ReturnsValue(Queried(c),
                              RowZero(<< JobColumns(result.rows[1]) >>)),
                 result.db)

\* Job.get up to and including its first query.
Job_get_job(c, d) ==
  LET jobRes == ExecSelect(d, "jobs", "id", c.id)
      job == RowZero([i \in 1..Len(jobRes.rows) |-> JobColumns(jobRes.rows[i])])
  IN IF NoRow(job)
     THEN StepTo(Throws(Queried(c), "NotFoundError"), d)
     ELSE StepTo([Queried(c) EXCEPT !.pc = "company", !.local = job], d)

\* Job.get from its second query to its return: delete job.companyHandle;
\* job.company = companiesRes.rows[0].
Job_get_company(c, d) ==
  LET job == c.local.o
      companiesRes == ExecSelect(d, "companies", "handle",
                                 Get(job, "companyHandle"))
      company == RowZero([i \in 1..Len(companiesRes.rows) |->
                            CompanyColumns(companiesRes.rows[i])])
  IN StepTo(ReturnsValue(Queried(c),
              Obj(Append(RestOf(job, {"companyHandle"}),
                         Entry("company", company)))),
            d)

Job_update(c, d) ==
  UpdateWith(c, d, "jobs", "id", JobFieldMap,
    "id, title, salary, equity, company_handle AS \"companyHandle\"")

Job_remove(c, d, fkOnDelete) == RemoveWith(c, d, "jobs", "id", fkOnDelete)

\* An array as a return value (result.rows).
Arr(items) == [t |-> "object", s |-> "", n |-> 0, a |-> items]

\* A statement that leaves the where clause out.
CompanyFindAllSql_unfiltered(whereClause) ==
  "SELECT handle, name, description, num_employees AS \"numEmployees\", logo_url AS \"logoUrl\" FROM companies  ORDER BY name"

\* The statement of findAll of the company revision, with the template's
\* line breaks written as spaces.
CompanyFindAllSql(whereClause) ==
  "SELECT handle, name, description, num_employees AS \"numEmployees\", logo_url AS \"logoUrl\" FROM companies "
    \o whereClause \o " ORDER BY name"

\* findAll of the company revision, the class read as the company model it
\* was copied from: Company._sqlForCompanyFilter is the builder of job.js
\* 85-109.  The outcomes of the call: one for each answer the store may send.
Company_findAll(c, d) ==
  LET built == Company_sqlForCompanyFilter(c.data)
  IN IF built.threw # "" THEN { StepTo(Throws(c, built.threw), d) }
     ELSE LET companiesRes ==
                ExecFind(d, CompanyFindAllSql(built.whereClause), built.values)
          IN IF companiesRes.err # ""
             THEN { StepTo(Throws(Queried(c), companiesRes.err), d) }
             ELSE { StepTo(ReturnsValue(
                             Queried(c),
                             Arr([i \in 1..Len(rows) |->
                                    CompanyColumns(rows[i])])),
                           d) : rows \in companiesRes.answers }

\* { minSalary, hasEquity, title }: the object Job.findAll hands to the
\* builder, a key for each of the three, undefined when the caller gave none.
JobSearchFilters(data) ==
  << Entry("minSalary", Get(data, "minSalary")),
     Entry("hasEquity", Get(data, "hasEquity")),
     Entry("title", Get(data, "title")) >>

\* The statement of Job.findAll: no ORDER BY follows the where clause.
JobFindAllSql(where) ==
  "SELECT j.id, j.title, j.salary, j.equity, j.company_handle AS \"companyHandle\", c.name AS \"companyName\" FROM jobs j LEFT JOIN companies AS c ON c.handle = j.company_handle "
    \o where

\* The select list of Job.findAll: companyName comes from the joined
\* company, NULL when the join finds none.
JobListColumns(r, d) ==
  LET joined == Matching(d.companies, "handle", r.company_handle)
  IN Append(JobColumns(r),
            Entry("companyName",
                  IF joined = {} THEN Null
                  ELSE d.companies[CHOOSE i \in joined : TRUE].name))

Job_findAll(c, d) ==
  LET built == Job_filterWhereBuilder(JobSearchFilters(c.data))
      jobsRes == ExecFind(d, JobFindAllSql(built.where), built.vals)
  IN IF jobsRes.err # ""
     THEN { StepTo(Throws(Queried(c), jobsRes.err), d) }
     ELSE { StepTo(ReturnsValue(
                     Queried(c),
                     Arr([i \in 1..Len(rows) |->
                            JobListColumns(rows[i], d)])),
                   d) : rows \in jobsRes.answers }

(***************************************************************************)
(* The state machine: one call of one builder, from its arguments to its   *)
(* return value or thrown error.                                           *)
(***************************************************************************)
Init ==
  /\ pc = "call"
  /\ ret = NoReturn
  /\ \/ fn = "sqlForPartialUpdate"
        /\ arg \in UpdatePayloads /\ jsToSql \in FieldNameMaps
     \/ fn \in CompanyFilterFns
        /\ arg \in CompanyFilters /\ jsToSql = << >>
     \/ fn = "Job._filterWhereBuilder"
        /\ arg \in JobFilters /\ jsToSql = << >>
  /\ db = Fixture
  /\ calls = [s \in Slots |-> IdleCall]
  /\ started = 0
  /\ onDelete = "NO ACTION"
  /\ removedIds = {}

Returns(value) ==
  /\ ret' = value
  /\ pc' = "done"
  /\ UNCHANGED <<fn, arg, jsToSql, db, calls, started, onDelete, removedIds>>

CallSqlForPartialUpdate ==
  /\ pc = "call" /\ fn = "sqlForPartialUpdate"
  /\ Returns(sqlForPartialUpdate(arg, jsToSql))

CallCompanySqlForCompanyFilter ==
  /\ pc = "call" /\ fn = "Company._sqlForCompanyFilter"
  /\ Returns(Company_sqlForCompanyFilter(arg))

CallSqlForCompanyFilter001 ==
  /\ pc = "call" /\ fn = "sqlForCompanyFilter@part_001"
  /\ Returns(sqlForCompanyFilter_part001(arg))

CallSqlForCompanyFilter002 ==
  /\ pc = "call" /\ fn = "sqlForCompanyFilter@part_002"
  /\ Returns(sqlForCompanyFilter_part002(arg))

CallJobFilterWhereBuilder ==
  /\ pc = "call" /\ fn = "Job._filterWhereBuilder"
  /\ Returns(Job_filterWhereBuilder(arg))

Next ==
  \/ CallSqlForPartialUpdate
  \/ CallCompanySqlForCompanyFilter
  \/ CallSqlForCompanyFilter001
  \/ CallSqlForCompanyFilter002
  \/ CallJobFilterWhereBuilder

Spec == Init /\ [][Next]_vars

Done(f) == pc = "done" /\ fn = f

Returned(f) == Done(f) /\ ret.threw = ""

(***************************************************************************)
(* The state machine of the persistence methods: up to MaxCalls calls of   *)
(* the model methods, at most one in flight per request slot, each query   *)
(* of a call one step, so that the queries of two calls interleave.        *)
(***************************************************************************)
\* The data Job.create is called with: a valid job of company c1, and the
\* same with a negative salary, an equity of 1 or 2, both, a company that is
\* not stored, company c2, and the key company_handle.
NewJob(salary, equity, key, handle) ==
  << Entry("title", Str("new")), Entry("salary", salary),
     Entry("equity", equity), Entry(key, handle) >>

JobCreateData ==
  { NewJob(Num(1), Hundredths(99), "companyHandle", Str("c1")),
    NewJob(Num(-1), Hundredths(99), "companyHandle", Str("c1")),
    NewJob(Num(1), Num(1), "companyHandle", Str("c1")),
    NewJob(Num(1), Num(2), "companyHandle", Str("c1")),
    NewJob(Num(-1), Num(1), "companyHandle", Str("c1")),
    NewJob(Num(1), Hundredths(99), "companyHandle", Str("nope")),
    NewJob(Num(1), Hundredths(99), "companyHandle", Str("c2")),
    NewJob(Num(1), Hundredths(99), "company_handle", Str("c1")) }

JobIds == {Num(1), Num(2), Num(9)}

JobUpdateData ==
  { << >>,
    << Entry("title", Str("X")) >>,
    << Entry("title", Str("X")), Entry("salary", Num(5)) >>,
    << Entry("salary", Null) >>,
    << Entry("id", Num(9)) >> }

CompanyHandles == {Str("c1"), Str("c2"), Str("nope")}

CompanyCreateData ==
  { << Entry("handle", handle), Entry("name", Str("New")),
       Entry("description", Str("New Description")),
       Entry("numEmployees", Num(1)), Entry("logoUrl", Str("http://new.img")) >> :
      handle \in {Str("c1"), Str("new")} }

CompanyUpdateData ==
  { << >>,
    << Entry("name", Str("C1-new")) >>,
    << Entry("numEmployees", Num(10)) >>,
    << Entry("name", Str("New")), Entry("numEmployees", Null) >>,
    << Entry("handle", Str("c1-new")) >> }

\* The criteria findAll is called with.
CompanyFindAllData ==
  { << >>,
    << Entry("minEmployees", Num(2)) >>,
    << Entry("maxEmployees", Num(1)) >>,
    << Entry("minEmployees", Num(2)), Entry("maxEmployees", Num(2)) >>,
    << Entry("minEmployees", Num(2)), Entry("maxEmployees", Num(1)) >>,
    << Entry("name", Str("NY 2")) >> }

JobFindAllData ==
  { << >>,
    << Entry("minSalary", Num(2)) >>,
    << Entry("hasEquity", Bool(TRUE)) >>,
    << Entry("title", Str("J")) >> }

TableOf(op) ==
  IF op \in {"Job.create", "Job.get", "Job.update", "Job.remove",
             "Job.findAll"}
  THEN "jobs" ELSE "companies"

KeyOf(table) == IF table = "jobs" THEN "id" ELSE "handle"

Stored(d, table, id) ==
  \E i \in 1..Len(d[table]) : d[table][i][KeyOf(table)] = id

BuildersAtRest ==
  /\ pc = "idle" /\ fn = "none" /\ arg = << >> /\ jsToSql = << >>
  /\ ret = NoReturn

InitStore ==
  /\ BuildersAtRest
  /\ db = Fixture
  /\ calls = [s \in Slots |-> IdleCall]
  /\ started = 0
  /\ onDelete \in {"CASCADE", "NO ACTION"}
  /\ removedIds = {}

\* The identifiers a successful remove took out and nothing has stored since.
RemovedAfter(c, d) ==
  LET now == IF c.pc = "done" /\ c.threw = ""
                  /\ c.op \in {"Job.remove", "Company.remove"}
             THEN {<< TableOf(c.op), c.id >>} ELSE {}
  IN { x \in removedIds \cup now : ~Stored(d, x[1], x[2]) }

\* One step of the call in slot s ends in r.
Advance(s, r) ==
  /\ db' = r.db
  /\ calls' = [calls EXCEPT ![s] = [r.call EXCEPT !.wrote = @ \/ r.db # db]]
  /\ removedIds' = RemovedAfter(r.call, r.db)
  /\ UNCHANGED <<onDelete, pc, fn, arg, jsToSql, ret>>

\* A new call enters slot s.
Begin(s, op, id, data) ==
  [NewCall(op, id, data) EXCEPT !.no = started + 1,
                                !.gone = << TableOf(op), id >> \in removedIds]

\* A new call takes the first slot that holds no call in flight.
Free(s) ==
  /\ started < MaxCalls
  /\ calls[s].pc \in {"idle", "done"}
  /\ s = "r1" \/ calls["r1"].pc \notin {"idle", "done"}
  /\ started' = started + 1

At(s, op, where) ==
  /\ calls[s].op = op /\ calls[s].pc = where
  /\ UNCHANGED started

CompanyCreate(s) ==
  /\ Free(s)
  /\ \E data \in CompanyCreateData :
       Advance(s, Company_create(
                    Begin(s, "Company.create", Get(data, "handle"), data), db))

CompanyGet(s) ==
  /\ Free(s)
  /\ \E handle \in CompanyHandles :
       Advance(s, Company_get(Begin(s, "Company.get", handle, << >>), db))

CompanyUpdate(s) ==
  /\ Free(s)
  /\ \E handle \in CompanyHandles, data \in CompanyUpdateData :
       Advance(s, Company_update(Begin(s, "Company.update", handle, data), db))

CompanyRemove(s) ==
  /\ Free(s)
  /\ \E handle \in CompanyHandles :
       Advance(s, Company_remove(Begin(s, "Company.remove", handle, << >>),
                                 db, onDelete))

JobCreate(s) ==
  /\ Free(s)
  /\ \E data \in JobCreateData :
       Advance(s, Job_create_check(
                    Begin(s, "Job.create", Undefined, data), db))

JobCreateInsert(s) ==
  /\ At(s, "Job.create", "insert")
  /\ Advance(s, Job_create_insert(calls[s], db))

JobGet(s) ==
  /\ Free(s)
  /\ \E id \in JobIds :
       Advance(s, Job_get_job(Begin(s, "Job.get", id, << >>), db))

JobGetCompany(s) ==
  /\ At(s, "Job.get", "company")
  /\ Advance(s, Job_get_company(calls[s], db))

JobUpdate(s) ==
  /\ Free(s)
  /\ \E id \in JobIds, data \in JobUpdateData :
       Advance(s, Job_update(Begin(s, "Job.update", id, data), db))

JobRemove(s) ==
  /\ Free(s)
  /\ \E id \in JobIds :
       Advance(s, Job_remove(Begin(s, "Job.remove", id, << >>), db, onDelete))

CompanyFindAll(s) ==
  /\ Free(s)
  /\ \E data \in CompanyFindAllData :
       \E r \in Company_findAll(
                  Begin(s, "Company.findAll", Undefined, data), db) :
         Advance(s, r)

JobFindAll(s) ==
  /\ Free(s)
  /\ \E data \in JobFindAllData :
       \E r \in Job_findAll(Begin(s, "Job.findAll", Undefined, data), db) :
         Advance(s, r)

NextStore ==
  \E s \in Slots :
    \/ CompanyCreate(s)
    \/ CompanyFindAll(s)
    \/ JobFindAll(s)
    \/ CompanyGet(s)
    \/ CompanyUpdate(s)
    \/ CompanyRemove(s)
    \/ JobCreate(s)
    \/ JobCreateInsert(s)
    \/ JobGet(s)
    \/ JobGetCompany(s)
    \/ JobUpdate(s)
    \/ JobRemove(s)

SpecStore == InitStore /\ [][NextStore]_vars

\* The call in slot s has returned or thrown.
Ended(s, op) == calls[s].pc = "done" /\ calls[s].op = op

\* The step is the last one of a call of op in slot s.
Finishes(s, op) ==
  calls'[s].pc = "done" /\ calls'[s].op = op /\ calls'[s] # calls[s]

(***************************************************************************)
(* Properties of sqlForPartialUpdate                                       *)
(***************************************************************************)
\* C1: for a non-empty payload, setCols holds exactly one assignment per
\* payload key, the i-th assignment references placeholder $i, and values is
\* the payload's values in key order, null values included.
C1_SetFragmentShape ==
  (Done("sqlForPartialUpdate") /\ Len(arg) > 0) =>
    /\ ret.threw = ""
    /\ LET a == Assignments(ret.setCols)
       IN /\ Len(a) = Len(arg)
          /\ \A i \in 1..Len(a) :
               /\ StartsWith(a[i], "\"")
               /\ PlaceholderOf(a[i]) = ToString(i)
    /\ Len(ret.values) = Len(arg)
    /\ \A i \in 1..Len(arg) : ret.values[i] = arg[i].v

\* A two-key payload whose second value is null went through the builder.
C1_Witness ==
  /\ Returned("sqlForPartialUpdate")
  /\ Len(arg) = 2
  /\ arg[2].v = Null
  /\ ret.values[2] = Null

\* C2: an empty payload makes sqlForPartialUpdate throw BadRequestError,
\* whatever the field-name map, and no fragment is returned.
C2_NoUpdateData ==
  (Done("sqlForPartialUpdate") /\ Len(arg) = 0) =>
    /\ ret.threw = "BadRequestError"
    /\ {"setCols", "values"} \cap DOMAIN ret = {}

\* The empty payload was passed with the (non-empty) company map.
C2_Witness ==
  /\ Done("sqlForPartialUpdate")
  /\ arg = << >>
  /\ jsToSql = CompanyFieldMap
  /\ ret.threw = "BadRequestError"

\* C3: the column emitted for payload key k is M[k] when k is an entry of M
\* and k verbatim when it is not.
C3_ColumnNameRule ==
  Returned("sqlForPartialUpdate") =>
    LET a == Assignments(ret.setCols)
    IN \A i \in 1..Len(arg) :
         ColumnOf(a[i]) = IF HasOwn(jsToSql, arg[i].k)
                          THEN ToStr(OwnValue(jsToSql, arg[i].k))
                          ELSE arg[i].k

\* C4: setCols is the same for every payload with the same keys in the same
\* order under the same map, and the text of no payload value occurs in it.
C4_ValuesNeverInText ==
  Returned("sqlForPartialUpdate") =>
    /\ \A other \in UpdatePayloads :
         ObjectKeys(other) = ObjectKeys(arg) =>
           sqlForPartialUpdate(other, jsToSql).setCols = ret.setCols
    /\ \A i \in 1..Len(arg) : ~Contains(ret.setCols, ToStr(arg[i].v))

\* A payload holding a string and a number went through the builder.
C4_Witness ==
  /\ Returned("sqlForPartialUpdate")
  /\ Len(arg) = 2
  /\ arg[1].v = Str("newName")
  /\ arg[2].v = Num(0)

(***************************************************************************)
(* Properties of the filter builders                                       *)
(***************************************************************************)
\* The where clause and the values list of a returned filter fragment.
ClauseOf(r) == IF "where" \in DOMAIN r THEN r.where ELSE r.whereClause

ValuesOf(r) == IF "vals" \in DOMAIN r THEN r.vals ELSE r.values

FilterFns == CompanyFilterFns \cup {"Job._filterWhereBuilder"}

\* C5: every filter builder returns the empty where clause and no values for
\* the empty criteria object, and no builder ever returns a bare WHERE.
C5_EmptyCriteria ==
  (pc = "done" /\ fn \in FilterFns) =>
    /\ arg = << >> =>
         ret.threw = "" /\ ClauseOf(ret) = "" /\ ValuesOf(ret) = << >>
    /\ ret.threw = "" => ClauseOf(ret) \notin {"WHERE", "WHERE "}

\* Company._sqlForCompanyFilter returned for the empty criteria object.
C5_Witness ==
  /\ Returned("Company._sqlForCompanyFilter")
  /\ arg = << >>
  /\ ret.whereClause = ""

\* C6: with at least one condition, the where clause of every revision of
\* the company filter builder is "WHERE " followed by the conditions joined
\* by " AND ".  Each condition of these builders carries one placeholder, so
\* the clause splits on " AND " into as many conditions as there are values,
\* the k-th ending in $k and holding no further AND.
C6_WhereJoinedByAnd ==
  (pc = "done" /\ fn \in CompanyFilterFns /\ ret.threw = ""
     /\ Len(ret.values) >= 1) =>
    /\ StartsWith(ret.whereClause, "WHERE ")
    /\ LET conds == Split(SubSeq(ret.whereClause, 7, Len(ret.whereClause)),
                          " AND ")
       IN /\ Len(conds) = Len(ret.values)
          /\ \A k \in 1..Len(conds) :
               /\ EndsWith(conds[k], "$" \o ToString(k))
               /\ ~Contains(conds[k], "AND")

\* The value of the criteria key k as the builder's parameter sees it.
Criterion(k) == IF HasOwn(arg, k) THEN OwnValue(arg, k) ELSE Undefined

\* The number each employee bound of the inputs stands for.
NumericOf(v) ==
  CASE v = Num(2) -> 2
    [] v = Str("2") -> 2
    [] v = Str("9") -> 9
    [] v = Str("10") -> 10
    [] v = Str("23") -> 23

\* C7: Company._sqlForCompanyFilter throws BadRequestError exactly when both
\* bounds are supplied and minEmployees is numerically greater than
\* maxEmployees, and then returns no clause and no values.
C7_RangeInverted ==
  Done("Company._sqlForCompanyFilter") =>
    LET lo == Criterion("minEmployees")
        hi == Criterion("maxEmployees")
    IN /\ ret.threw = "BadRequestError" <=>
            (lo # Undefined /\ hi # Undefined /\ NumericOf(lo) > NumericOf(hi))
       /\ ret.threw # "BadRequestError" => ret.threw = ""
       /\ ret.threw = "BadRequestError" =>
            {"whereClause", "values"} \cap DOMAIN ret = {}

\* The builder was called with the numeric strings "23" and "2" and threw.
C7_Witness ==
  /\ Done("Company._sqlForCompanyFilter")
  /\ Criterion("minEmployees") = Str("23")
  /\ Criterion("maxEmployees") = Str("2")
  /\ ret.threw = "BadRequestError"

RecognizedCompanyKeys == {"name", "minEmployees", "maxEmployees"}

\* {name: "Company 1", minEmployees: 2, description: ""}
ExampleCriteria ==
  << Entry("name", Str("Company 1")), Entry("minEmployees", Num(2)),
     Entry("description", Str("")) >>

\* C8: Company._sqlForCompanyFilter gives the result it gives on the input
\* restricted to name, minEmployees and maxEmployees, and the example with a
\* description key yields the two-condition fragment.
C8_OtherKeysIgnored ==
  Done("Company._sqlForCompanyFilter") =>
    /\ ret = Company_sqlForCompanyFilter(
               SelectSeq(arg, LAMBDA e : e.k \in RecognizedCompanyKeys))
    /\ arg = ExampleCriteria =>
         ret = [threw |-> "",
                whereClause |-> "WHERE name ILIKE $1 AND num_employees>=$2",
                values |-> << Str("%Company 1%"), Num(2) >>]

\* The example criteria object went through Company._sqlForCompanyFilter.
C8_Witness ==
  /\ Returned("Company._sqlForCompanyFilter")
  /\ arg = ExampleCriteria
  /\ Len(ret.values) = 2

\* C9: the helpers sqlForCompanyFilter turns every unrecognized key into the
\* predicate "<key>=$k" with the raw value as parameter k, and the example
\* yields the three-condition fragment with single-spaced ANDs.
C9_CatchAllEquality ==
  (pc = "done"
     /\ fn \in {"sqlForCompanyFilter@part_001", "sqlForCompanyFilter@part_002"}) =>
    /\ ret.threw = ""
    /\ \A i \in 1..Len(arg) :
         arg[i].k \notin RecognizedCompanyKeys =>
           \E k \in 1..Len(ret.values) :
             /\ ret.values[k] = arg[i].v
             /\ Contains(ret.whereClause, arg[i].k \o "=$" \o ToString(k))
    /\ arg = ExampleCriteria =>
         /\ ret.whereClause =
              "WHERE name ILIKE $1 AND num_employees>=$2 AND description=$3"
         /\ ret.values = << Str("%Company 1%"), Num(2), Str("") >>

\* The builder named f applied to the criteria object a.
Builder(f, a) ==
  CASE f = "Company._sqlForCompanyFilter" -> Company_sqlForCompanyFilter(a)
    [] f = "sqlForCompanyFilter@part_001" -> sqlForCompanyFilter_part001(a)
    [] f = "sqlForCompanyFilter@part_002" -> sqlForCompanyFilter_part002(a)
    [] f = "Job._filterWhereBuilder" -> Job_filterWhereBuilder(a)

\* The object o without its i-th entry.
WithoutEntry(o, i) == SubSeq(o, 1, i - 1) \o SubSeq(o, i + 1, Len(o))

\* C10: in every filter builder a key whose value is undefined contributes
\* nothing: the result is the result for the input without that key, and no
\* undefined entry appears among the values.
C10_UndefinedContributesNothing ==
  (pc = "done" /\ fn \in FilterFns) =>
    /\ \A i \in 1..Len(arg) :
         arg[i].v = Undefined => ret = Builder(fn, WithoutEntry(arg, i))
    /\ ret.threw = "" =>
         \A k \in 1..Len(ValuesOf(ret)) : ValuesOf(ret)[k] # Undefined

(***************************************************************************)
(* Properties of Job._filterWhereBuilder                                   *)
(***************************************************************************)
\* The conditions of a where clause, none for the empty clause.
ConditionsOf(where) ==
  IF where = "" THEN << >> ELSE Split(SubSeq(where, 7, Len(where)), " AND ")

\* C11: Job._filterWhereBuilder emits the condition "equity > 0" exactly when
\* hasEquity is the boolean true; the condition brings no value with it, and
\* for every other hasEquity the result is the one for the criteria without
\* that key.
C11_HasEquityOnlyTrue ==
  Done("Job._filterWhereBuilder") =>
    LET conds == ConditionsOf(ret.where)
        equityConds == { k \in 1..Len(conds) : conds[k] = "equity > 0" }
        valued == { k \in {"minSalary", "title"} : Criterion(k) # Undefined }
    IN /\ ret.threw = ""
       /\ Cardinality(equityConds) =
            (IF Criterion("hasEquity") = Bool(TRUE) THEN 1 ELSE 0)
       /\ \A k \in 1..Len(conds) : Contains(conds[k], "equity") => k \in equityConds
       /\ Len(ret.vals) = Cardinality(valued)
       /\ \A k \in 1..Len(ret.vals) : ret.vals[k].t # "boolean"
       /\ Criterion("hasEquity") # Bool(TRUE) =>
            ret = Job_filterWhereBuilder(
                    SelectSeq(arg, LAMBDA e : e.k # "hasEquity"))

\* The builder was called with hasEquity true and a minimum salary, and with
\* the string "true".
C11_Witness ==
  /\ Returned("Job._filterWhereBuilder")
  /\ Criterion("hasEquity") = Bool(TRUE)
  /\ Criterion("minSalary") = Num(100)
  /\ ret.where = "WHERE salary >= $1 AND equity > 0"
  /\ ret.vals = << Num(100) >>

(***************************************************************************)
(* Properties of Job.create                                                *)
(***************************************************************************)
\* The equity and salary of the inputs, read independently of the method:
\* equity in hundredths, salary in units.
EquityInHundredths(data) ==
  LET equity == OwnValue(data, "equity")
  IN CASE equity = Hundredths(99) -> 99
       [] equity = Num(1) -> 100
       [] equity = Num(2) -> 200

SalaryOf(data) == OwnValue(data, "salary").n

\* The company a create call names, under either spelling of the key.
NamedCompany(data) ==
  IF HasOwn(data, "companyHandle") THEN OwnValue(data, "companyHandle")
  ELSE OwnValue(data, "company_handle")

\* The call threw BadRequestError and none of its steps changed the store.
Rejected(c) == c.threw = "BadRequestError" /\ ~c.wrote

\* C12: a Job.create whose equity is 1 or more ends with BadRequestError,
\* without a query and without a change of the store; one whose equity is
\* below 1 and whose salary is not negative returns the new job when the
\* company it passes as companyHandle is stored.
C12_EquityBelowOne ==
  [][\A s \in Slots : Finishes(s, "Job.create") =>
       LET c == calls'[s]
       IN /\ EquityInHundredths(c.data) >= 100 =>
               Rejected(c) /\ c.queries = 0 /\ db' = db
          /\ (/\ EquityInHundredths(c.data) < 100
              /\ SalaryOf(c.data) >= 0
              /\ Stored(db, "companies", Get(c.data, "companyHandle"))) =>
               /\ c.threw = ""
               /\ Len(db'.jobs) = Len(db.jobs) + 1
               /\ db'.jobs[Len(db'.jobs)].equity = OwnValue(c.data, "equity")
    ]_vars

\* A job with equity 0.99 was stored, and a later create with equity 1 was
\* rejected.
C12_Witness ==
  /\ \E j \in 1..Len(db.jobs) : db.jobs[j].equity = Hundredths(99)
  /\ Ended("r1", "Job.create")
  /\ OwnValue(calls["r1"].data, "equity") = Num(1)
  /\ SalaryOf(calls["r1"].data) >= 0
  /\ Get(calls["r1"].data, "companyHandle") = Str("c1")
  /\ calls["r1"].threw = "BadRequestError"

\* C13: a Job.create with a negative salary, or naming a company that is not
\* stored when the call is made, ends with BadRequestError, and the jobs
\* table is what it was.
C13_CreateRejectsBadSalaryOrCompany ==
  [][\A s \in Slots : Finishes(s, "Job.create") =>
       LET c == calls'[s]
       IN /\ SalaryOf(c.data) < 0 => Rejected(c) /\ db'.jobs = db.jobs
          /\ (c.queries <= 1
                /\ ~Stored(db, "companies", NamedCompany(c.data))) =>
               Rejected(c) /\ db'.jobs = db.jobs
    ]_vars

\* A create with salary -1, a valid equity and a stored company was rejected.
C13_Witness ==
  \E s \in Slots :
    /\ Ended(s, "Job.create")
    /\ SalaryOf(calls[s].data) = -1
    /\ EquityInHundredths(calls[s].data) = 99
    /\ Get(calls[s].data, "companyHandle") = Str("c1")
    /\ Stored(db, "companies", Str("c1"))
    /\ calls[s].threw = "BadRequestError"
    /\ db.jobs = Fixture.jobs

\* C14: a Job.create called with { title, salary, equity, company_handle },
\* the company stored and salary and equity valid, returns
\* { id, title, salary, equity, company_handle } with the given values and
\* adds exactly one row to the jobs table.
C14_CreateWithCompanyHandleKey ==
  [][\A s \in Slots :
       (/\ Finishes(s, "Job.create")
        /\ HasOwn(calls'[s].data, "company_handle")
        /\ Stored(db, "companies", OwnValue(calls'[s].data, "company_handle"))
        /\ SalaryOf(calls'[s].data) >= 0
        /\ EquityInHundredths(calls'[s].data) < 100) =>
         LET c == calls'[s]
         IN /\ c.threw = ""
            /\ Len(db'.jobs) = Len(db.jobs) + 1
            /\ c.result.t = "object"
            /\ ObjectKeys(c.result.o) =
                 << "id", "title", "salary", "equity", "company_handle" >>
            /\ \A k \in {"title", "salary", "equity", "company_handle"} :
                 Get(c.result.o, k) = OwnValue(c.data, k)
    ]_vars

(***************************************************************************)
(* Properties of get, update and remove                                    *)
(***************************************************************************)
GetOps == {"Job.get", "Company.get"}

UpdateOps == {"Job.update", "Company.update"}

RemoveOps == {"Job.remove", "Company.remove"}

\* The step is the last one of a call that looks its row up by identifier:
\* a get, an update with a non-empty payload, or a remove.
FinishesLookup(s) ==
  /\ \E op \in GetOps \cup UpdateOps \cup RemoveOps : Finishes(s, op)
  /\ calls'[s].op \in UpdateOps => calls'[s].data # << >>

\* C15: a get, an update with a non-empty payload or a remove, of a job or
\* of a company, whose identifier no stored row has when its query runs,
\* ends with NotFoundError and leaves the store as it was.
C15_NotFoundWhenNoRow ==
  [][\A s \in Slots :
       (/\ FinishesLookup(s)
        /\ calls'[s].queries = 1
        /\ ~Stored(db, TableOf(calls'[s].op), calls'[s].id)) =>
         /\ calls'[s].threw = "NotFoundError"
         /\ ~calls'[s].wrote
         /\ db' = db
    ]_vars

\* An update of the company "nope" with a one-field payload ended with
\* NotFoundError.
C15_Witness ==
  \E s \in Slots :
    /\ Ended(s, "Company.update")
    /\ calls[s].id = Str("nope")
    /\ Len(calls[s].data) = 1
    /\ calls[s].threw = "NotFoundError"
    /\ db = Fixture

\* C16: an update with the empty payload ends with BadRequestError before
\* any query is sent and without a change of the store, whether or not a
\* row has the identifier.
C16_EmptyPayloadBeforeQuery ==
  \A s \in Slots :
    (calls[s].pc = "done" /\ calls[s].op \in UpdateOps
       /\ calls[s].data = << >>) =>
      /\ calls[s].threw = "BadRequestError"
      /\ calls[s].queries = 0
      /\ ~calls[s].wrote

\* Job.update of the id 9, which no row has, with the empty payload ended
\* with BadRequestError.
C16_Witness ==
  \E s \in Slots :
    /\ Ended(s, "Job.update")
    /\ calls[s].id = Num(9)
    /\ ~Stored(db, "jobs", Num(9))
    /\ calls[s].data = << >>
    /\ calls[s].threw = "BadRequestError"

\* C17: an update whose payload names the identifier field of its resource
\* (id of a job, handle of a company) is rejected with BadRequestError, and
\* every stored row carries an identifier it was created with: a job id the
\* table has handed out, a company handle of the first rows.
C17_IdentifierImmutable ==
  /\ \A s \in Slots :
       (/\ calls[s].pc = "done" /\ calls[s].op \in UpdateOps
        /\ HasOwn(calls[s].data, KeyOf(TableOf(calls[s].op)))) =>
         calls[s].threw = "BadRequestError"
  /\ \A j \in 1..Len(db.jobs) :
       db.jobs[j].id.t = "number" /\ db.jobs[j].id.n < db.nextId
  /\ \A c \in 1..Len(db.companies) :
       \E f \in 1..Len(Fixture.companies) :
         db.companies[c].handle = Fixture.companies[f].handle

\* The column a payload key is written to.
ColumnFor(k) ==
  CASE k = "numEmployees" -> "num_employees"
    [] k = "logoUrl" -> "logo_url"
    [] OTHER -> k

\* The row after the payload has been written over it.
Overwritten(row, data) ==
  [col \in DOMAIN row |->
     IF \E i \in 1..Len(data) : ColumnFor(data[i].k) = col
     THEN LET i == CHOOSE i \in 1..Len(data) : ColumnFor(data[i].k) = col
          IN data[i].v
     ELSE row[col]]

C20_DuplicateCompanyRejected ==
  [][/\ \A s \in Slots :
          (/\ Finishes(s, "Company.create")
           /\ Stored(db, "companies", calls'[s].id)) =>
            calls'[s].threw = "BadRequestError" /\ db' = db
     /\ KeysUnique(db')
    ]_vars

(***************************************************************************)
(* Properties of the placeholders and of the order of the conditions       *)
(***************************************************************************)
ModelBuilders == {"Company._sqlForCompanyFilter", "Job._filterWhereBuilder"}

\* The conditions that carry a placeholder, left to right, and the index a
\* condition carries.
Numbered(conds) == SelectSeq(conds, LAMBDA c : Contains(c, "$"))

IndexIn(cond) == ParamIndex(After(cond, "$"))

\* The value the criteria give to the field a condition tests.
ValueFor(cond) ==
  CASE StartsWith(cond, "salary >= $") -> Criterion("minSalary")
    [] StartsWith(cond, "title ILIKE $") ->
         Str("%" \o ToStr(Criterion("title")) \o "%")
    [] StartsWith(cond, "name ILIKE $") ->
         Str("%" \o ToStr(Criterion("name")) \o "%")
    [] StartsWith(cond, "num_employees>=$") -> Criterion("minEmployees")
    [] StartsWith(cond, "num_employees<=$") -> Criterion("maxEmployees")
    [] OTHER -> Undefined

\* C24: in every fragment returned by Job._filterWhereBuilder and
\* Company._sqlForCompanyFilter the placeholders, read left to right, are
\* exactly $1..$n with n the length of the values, the condition carrying $k
\* tests the field whose value is the k-th value, and "equity > 0" consumes no
\* index: title carries $2 when minSalary is present and $1 when it is not.
C24_PlaceholdersCountValues ==
  (pc = "done" /\ fn \in ModelBuilders /\ ret.threw = "") =>
    LET conds == ConditionsOf(ClauseOf(ret))
        numbered == Numbered(conds)
        values == ValuesOf(ret)
    IN /\ Len(numbered) = Len(values)
       /\ \A k \in 1..Len(numbered) :
            /\ IndexIn(numbered[k]) = k
            /\ values[k] = ValueFor(numbered[k])
            /\ values[k] # Undefined
       /\ \A i \in 1..Len(conds) :
            StartsWith(conds[i], "title ILIKE $") =>
              IndexIn(conds[i]) =
                IF Criterion("minSalary") # Undefined THEN 2 ELSE 1

C24_Witness ==
  /\ Returned("Job._filterWhereBuilder")
  /\ ret.where = "WHERE salary >= $1 AND equity > 0 AND title ILIKE $2"
  /\ ret.vals = << Num(100), Str("%Engineer%") >>

\* The place of a condition's field in the declared order of its builder.
FieldRank(cond) ==
  CASE StartsWith(cond, "name ILIKE $") -> 1
    [] StartsWith(cond, "num_employees>=$") -> 2
    [] StartsWith(cond, "num_employees<=$") -> 3
    [] StartsWith(cond, "salary >= $") -> 1
    [] cond = "equity > 0" -> 2
    [] StartsWith(cond, "title ILIKE $") -> 3
    [] OTHER -> 4

\* C25: the conditions of a fragment stand in the declared field order
\* (company: name, minEmployees, maxEmployees; job: minSalary, hasEquity,
\* title), and every rearrangement of the keys of the criteria yields the
\* same fragment, in every filter builder of the source.
C25_FixedFieldOrder ==
  (pc = "done" /\ fn \in FilterFns) =>
    /\ \A p \in Rearrangements(Len(arg)) : Builder(fn, Reordered(arg, p)) = ret
    /\ ret.threw = "" =>
         LET conds == ConditionsOf(ClauseOf(ret))
         IN \A i, j \in 1..Len(conds) :
              i < j => FieldRank(conds[i]) <= FieldRank(conds[j])

(***************************************************************************)
(* Properties of findAll                                                   *)
(***************************************************************************)
\* The rows a call of findAll returned.
RowsOf(c) == c.result.a

\* The rows stand in ascending order of the text, or of the number, of key.
AscendingText(rows, key) ==
  \A i, j \in 1..Len(rows) :
    i < j => ~TextLess(Get(rows[j], key).s, Get(rows[i], key).s)

AscendingNumber(rows, key) ==
  \A i, j \in 1..Len(rows) : i < j => Get(rows[i], key).n < Get(rows[j], key).n

\* C21: the rows findAll returns stand in the order of a stable key of the
\* rows, companies by name and jobs by title or by id, whatever the order in
\* which the store holds them.
C21_FindAllOrdered ==
  \A s \in Slots :
    /\ (Ended(s, "Company.findAll") /\ calls[s].threw = "") =>
         AscendingText(RowsOf(calls[s]), "name")
    /\ (Ended(s, "Job.findAll") /\ calls[s].threw = "") =>
         \/ AscendingText(RowsOf(calls[s]), "title")
         \/ AscendingNumber(RowsOf(calls[s]), "id")

\* The stored company satisfies the employee bounds of the criteria, both
\* inclusive; a company without a number of employees satisfies no bound.
WithinBounds(row, criteria) ==
  /\ HasOwn(criteria, "minEmployees") =>
       /\ row.num_employees # Null
       /\ row.num_employees.n >= OwnValue(criteria, "minEmployees").n
  /\ HasOwn(criteria, "maxEmployees") =>
       /\ row.num_employees # Null
       /\ row.num_employees.n <= OwnValue(criteria, "maxEmployees").n

C23_OneRoundTrip ==
  \A s \in Slots :
    (calls[s].pc = "done" /\ calls[s].threw = "") =>
      calls[s].queries = IF calls[s].op = "Job.get" THEN 2 ELSE 1

\* The queries a call of op sends when none of its checks stops it.
RoundTrips(op) == IF op \in {"Job.get", "Job.create"} THEN 2 ELSE 1

\* C23, amended: no call sends more queries than its operation has (two for
\* Job.get and for Job.create, which looks the company up before it inserts,
\* one for every other operation); a call that returned has sent exactly
\* that many, a call waiting between its two queries exactly one; and a
\* call whose query failed in the store has ended with that failure.
C23_RoundTripsPerOperation ==
  \A s \in Slots :
    LET c == calls[s]
    IN c.op # "none" =>
         /\ c.queries <= RoundTrips(c.op)
         /\ (c.pc = "done" /\ c.threw = "") => c.queries = RoundTrips(c.op)
         /\ c.pc # "done" => c.queries = 1 /\ c.threw = ""
         /\ c.threw = "StoreError" => c.pc = "done" /\ c.queries >= 1

\* A Job.create returned the job it stored after its two queries.
C23_Witness ==
  \E s \in Slots :
    /\ Ended(s, "Job.create")
    /\ calls[s].threw = ""
    /\ calls[s].queries = 2
    /\ \E j \in 1..Len(db.jobs) : db.jobs[j].id = Get(calls[s].result.o, "id")

(***************************************************************************)
(* Properties of calls that interleave                                     *)
(***************************************************************************)
\* C26: the job a Job.get returns has a company field that holds a company
\* (an object with the handle, never undefined) and no companyHandle field,
\* also when a Company.remove ran between the two queries of the call.
C26_GetReturnsCompany ==
  \A s \in Slots :
    (Ended(s, "Job.get") /\ calls[s].threw = "") =>
      LET job == calls[s].result.o
      IN /\ ~HasOwn(job, "companyHandle")
         /\ HasOwn(job, "company")
         /\ OwnValue(job, "company") # Undefined
         /\ OwnValue(job, "company").t = "object"
         /\ HasOwn(OwnValue(job, "company").o, "handle")

\* C27: every stored job names a stored company, in every state the calls of
\* Job.create and Company.remove can reach together; and a Job.create whose
\* company was found by its look-up and is gone at its INSERT ends with
\* BadRequestError.
C27_CreateRaceClassified ==
  /\ ForeignKeyHolds(db)
  /\ \A s \in Slots :
       ( /\ Ended(s, "Job.create")
         /\ calls[s].queries = 2
         /\ calls[s].threw # "" ) =>
         calls[s].threw = "BadRequestError"

\* The fields two payloads name have none in common, and neither names the
\* identifier of the table.
DisjointFields(a, b, table) ==
  LET ka == { a[i].k : i \in 1..Len(a) }
      kb == { b[i].k : i \in 1..Len(b) }
  IN ka \cap kb = {} /\ KeyOf(table) \notin ka \cup kb

\* C28: an update that reaches the store sends one UPDATE statement whose
\* WHERE clause compares the identifier column with placeholder $(n + 1), n
\* the number of payload fields, and whose last parameter, the (n + 1)-th,
\* is the identifier.  When two successful updates of the same row with
\* disjoint fields follow one another, in either order, the row then holds
\* the values of both payloads.
C28_DisjointUpdatesBothApply ==
  [][\A s \in Slots :
       ((\E op \in UpdateOps : Finishes(s, op)) /\ calls'[s].queries > 0) =>
         LET c == calls'[s]
             before == calls[s]
             table == TableOf(c.op)
             n == Len(c.data)
         IN /\ c.queries = 1
            /\ Len(c.sent) = 2
            /\ Between(c.sent[1], " WHERE ", " RETURNING ") =
                 KeyOf(table) \o " = $" \o ToString(n + 1)
            /\ Len(c.sent[2]) = n + 1
            /\ c.sent[2][n + 1] = c.id
            /\ ( /\ c.threw = ""
                 /\ before.pc = "done" /\ before.threw = ""
                 /\ before.op = c.op /\ before.id = c.id
                 /\ before.no + 1 = c.no
                 /\ DisjointFields(before.data, c.data, table) ) =>
                 \E i \in 1..Len(db'[table]) :
                   /\ db'[table][i][KeyOf(table)] = c.id
                   /\ \A k \in 1..Len(before.data) :
                        db'[table][i][ColumnFor(before.data[k].k)] =
                          SqlParam(before.data[k].v)
                   /\ \A k \in 1..n :
                        db'[table][i][ColumnFor(c.data[k].k)] =
                          SqlParam(c.data[k].v)
    ]_vars

\* Company c1 was renamed by one update and given ten employees by the
\* next: the row holds both.
C28_Witness ==
  \E s \in Slots :
    /\ Ended(s, "Company.update")
    /\ calls[s].no = 2
    /\ calls[s].id = Str("c1")
    /\ calls[s].data = << Entry("numEmployees", Num(10)) >>
    /\ calls[s].threw = ""
    /\ calls[s].sent[2] = << Num(10), Str("c1") >>
    /\ \E i \in 1..Len(db.companies) :
         /\ db.companies[i].handle = Str("c1")
         /\ db.companies[i].name = Str("C1-new")
         /\ db.companies[i].num_employees = Num(10)

====
